---- MODULE Spec2Model ----
(***************************************************************************)
(* Model of src/src/main.rs: the origin-computing barrier                  *)
(* NewWithComputedOrigin::should_execute and the location encoder          *)
(* NewDescribeFamily::describe_location.  The location arithmetic the      *)
(* barrier                                                                 *)
(* calls (global_consensus, relative_to, prepended_with, within_global,    *)
(* append_with) and the instruction matcher (match_next_inst_while) are    *)
(* modelled by what the staging-xcm v3 / staging-xcm-builder functions     *)
(* called at the cited lines compute.                                      *)
(***************************************************************************)
EXTENDS Integers, Sequences, FiniteSets, TLC

(* ---------------- bounds of the model ---------------- *)
MaxLen == 3            \* longest instruction sequence explored
MaxPrefixBound == 2    \* largest MaxPrefixes::get() explored
MaxEncParents == 2     \* largest parents of a location given to the encoder
MaxCalls == 2          \* calls of should_execute on one instruction vector

(* ---------------- program constants ---------------- *)
MAX_JUNCTIONS == 8     \* capacity of Junctions (X1 .. X8)
MAX_PARENTS == 255     \* MultiLocation.parents is a u8
DemoMaxPrefixes == 8   \* ConstU32<8> of RelayBarrier / ParaBarrier

(* ---------------- junctions, locations, instructions ---------------- *)
\* NetworkId discriminants
Polkadot == 2
Kusama == 3

Parachain(index) == <<"Parachain", index>>
GlobalConsensus(network) == <<"GlobalConsensus", network>>
PalletInstance(i) == <<"PalletInstance", i>>
\* Plurality { id: BodyId::Index(i), part: BodyPart::Voice }
Plurality(i) == <<"Plurality", i>>

MultiLocation(p, i) == [parents |-> p, interior |-> i]

UniversalOrigin(j) == [tag |-> "UniversalOrigin", arg |-> <<j>>]
DescendOrigin(js) == [tag |-> "DescendOrigin", arg |-> js]
Transact == [tag |-> "Transact", arg |-> <<>>]

\* Result<_, ()> / Result<_, ProcessMessageError> values
Ok(v) == [ok |-> TRUE, val |-> v]
Err == [ok |-> FALSE, val |-> <<>>]

\* the instructions explored
InstructionSet ==
    { UniversalOrigin(GlobalConsensus(Kusama)),
      UniversalOrigin(GlobalConsensus(Polkadot)),
      UniversalOrigin(Parachain(1000)),
      DescendOrigin(<<Plurality(0)>>),
      DescendOrigin(<<PalletInstance(1), PalletInstance(2),
                      PalletInstance(3), PalletInstance(4)>>),
      Transact }

RECURSIVE SeqsUpTo(_, _)
SeqsUpTo(S, n) ==
    IF n = 0 THEN { <<>> }
    ELSE LET shorter == SeqsUpTo(S, n - 1)
         IN  shorter \cup { Append(s, x) : s \in { t \in shorter : Len(t) = n - 1 }, x \in S }

\* the incoming origins explored
OriginSet ==
    { MultiLocation(0, <<Parachain(2125)>>),
      MultiLocation(1, <<Parachain(2125)>>),
      MultiLocation(0, <<>>),
      MultiLocation(2, <<Parachain(2125)>>),
      MultiLocation(0, <<Parachain(2125), PalletInstance(1), PalletInstance(2),
                         PalletInstance(3), PalletInstance(4), PalletInstance(5),
                         PalletInstance(6)>>) }

\* the LocalUniversal parameters explored
RelayUniversalLocation == <<GlobalConsensus(Kusama)>>
ParaUniversalLocation == <<GlobalConsensus(Kusama), Parachain(1000)>>
LocalUniversalSet ==
    { RelayUniversalLocation, ParaUniversalLocation,
      <<>>, <<Parachain(1000)>>, <<GlobalConsensus(Polkadot)>> }

WeightSet == { 0, 100 }
PropertiesSet == { [weight_credit |-> 100, message_id |-> "None"] }

\* what a generic InnerBarrier may return
InnerResults == { "Ok", "Barrier", "Unsupported" }

\* the MaxPrefixes parameters explored
MaxPrefixSet == (0 .. MaxPrefixBound) \cup { DemoMaxPrefixes }

(* ---------------- location arithmetic ---------------- *)
Max0(n) == IF n < 0 THEN 0 ELSE n
Min(a, b) == IF a < b THEN a ELSE b

\* mutant: the first junction is taken for the root whatever its kind
global_consensusAny(js) ==
    IF Len(js) > 0 THEN Ok(js[1][2]) ELSE Ok(Kusama)

\* Junctions::global_consensus
global_consensus(js) ==
    IF Len(js) > 0 /\ js[1][1] = "GlobalConsensus" THEN Ok(js[1][2]) ELSE Err

\* Junctions::relative_to: strip the common prefix of self and viewer,
\* ascend over what is left of viewer
RECURSIVE CommonPrefixLen(_, _)
CommonPrefixLen(a, b) ==
    IF Len(a) > 0 /\ Len(b) > 0 /\ a[1] = b[1]
    THEN 1 + CommonPrefixLen(Tail(a), Tail(b))
    ELSE 0

relative_to(self, viewer) ==
    LET i == CommonPrefixLen(self, viewer)
    IN  MultiLocation(Len(viewer) - i, SubSeq(self, i + 1, Len(self)))

\* mutant: no cancelling of the suffix's parents against the prefix's interior
prepended_withNoCancel(self, prefix) ==
    IF Len(self.interior) + Len(prefix.interior) > MAX_JUNCTIONS
       \/ self.parents + prefix.parents > MAX_PARENTS
    THEN Err
    ELSE Ok(MultiLocation(self.parents + prefix.parents,
                          prefix.interior \o self.interior))

\* MultiLocation::prepended_with (prepend_with)
prepended_with(self, prefix) ==
    LET prepend_interior == Max0(Len(prefix.interior) - self.parents)
        final_interior == Len(self.interior) + prepend_interior
        suffix_parents == Max0(self.parents - Len(prefix.interior))
        final_parents == prefix.parents + suffix_parents
        cancelled == Min(self.parents, Len(prefix.interior))
    IN  IF final_interior > MAX_JUNCTIONS \/ final_parents > MAX_PARENTS
        THEN Err
        ELSE Ok(MultiLocation(
                 (self.parents - cancelled) + prefix.parents,
                 SubSeq(prefix.interior, 1, Len(prefix.interior) - cancelled)
                     \o self.interior))

\* mutant: a relative location leaving the global consensus is accepted
within_globalLax(self, relative) ==
    LET kept == SubSeq(self, 1, Max0(Len(self) - relative.parents))
    IN  IF Len(kept) + Len(relative.interior) > MAX_JUNCTIONS
        THEN Err
        ELSE Ok(kept \o relative.interior)

\* Junctions::within_global
within_global(self, relative) ==
    IF Len(self) <= relative.parents THEN Err
    ELSE LET kept == SubSeq(self, 1, Len(self) - relative.parents)
         IN  IF Len(kept) + Len(relative.interior) > MAX_JUNCTIONS
             THEN Err
             ELSE Ok(kept \o relative.interior)

\* Junctions::into_location
into_location(js) == MultiLocation(0, js)

\* mutant: the suffix is truncated to the free capacity
append_withTruncating(self, suffix) ==
    Ok(MultiLocation(self.parents,
          self.interior \o
          SubSeq(suffix, 1, Min(Len(suffix), MAX_JUNCTIONS - Len(self.interior)))))

\* MultiLocation::append_with
append_with(self, suffix) ==
    IF Len(self.interior) + Len(suffix) > MAX_JUNCTIONS
    THEN Err
    ELSE Ok(MultiLocation(self.parents, self.interior \o suffix))

(* ---------------- the closure's two origin-affecting arms ---------------- *)
\* mutant: the replaced formula X1(*new_global).relative_to(&LocalUniversal::get())
universal_originLegacy(actual, new_global, local) ==
    Ok(relative_to(<<new_global>>, local))

\* mutant: the rebased origin is not re-anchored under the global-consensus root
universal_originRelative(actual, new_global, local) ==
    LET root == global_consensus(local)
    IN  IF ~root.ok THEN Err
        ELSE LET pre == prepended_with(actual, relative_to(local, <<new_global>>))
             IN  IF ~pre.ok \/ pre.val.parents > 0 THEN Err ELSE Ok(pre.val)

\* UniversalOrigin(new_global) arm
universal_origin(actual, new_global, local) ==
    LET root == global_consensus(local)
    IN  IF ~root.ok THEN Err
        ELSE LET pre == prepended_with(actual, relative_to(local, <<new_global>>))
             IN  IF ~pre.ok THEN Err
                 ELSE LET abs == within_global(<<GlobalConsensus(root.val)>>, pre.val)
                      IN  IF ~abs.ok THEN Err
                          ELSE Ok(into_location(abs.val))

\* mutant: the junctions are put in front of the interior
descend_originPrepend(actual, j) ==
    IF Len(actual.interior) + Len(j) > MAX_JUNCTIONS
    THEN Err
    ELSE Ok(MultiLocation(actual.parents, j \o actual.interior))

\* DescendOrigin(j) arm
descend_origin(actual, j) == append_with(actual, j)

\* the UniversalOrigin arm of WithComputedOrigin, the ORIGINAL CODE:
\* actual_origin = X1(*new_global).relative_to(&LocalUniversal::get())
legacy_universal_origin(new_global, local) ==
    Ok(relative_to(<<new_global>>, local))

IsOriginAffecting(inst) == inst.tag \in { "UniversalOrigin", "DescendOrigin" }

(* ---------------- SCALE encoding ---------------- *)
\* Option<Vec<u8>>
Some(bytes) == [some |-> TRUE, bytes |-> bytes]
None == [some |-> FALSE, bytes |-> <<>>]

\* little-endian bytes of n
RECURSIVE LittleEndian(_, _)
LittleEndian(n, width) ==
    IF width = 0 THEN <<>>
    ELSE <<n % 256>> \o LittleEndian(n \div 256, width - 1)

\* Compact::<u32>::from(n).encode()
CompactU32(n) ==
    IF n < 64 THEN LittleEndian(n * 4, 1)
    ELSE IF n < 16384 THEN LittleEndian(n * 4 + 1, 2)
    ELSE IF n < 1073741824 THEN LittleEndian(n * 4 + 2, 4)
    ELSE <<3>> \o LittleEndian(n, 4)

\* Vec<u8>::encode(): compact length, then the bytes
EncodeVec(bytes) == CompactU32(Len(bytes)) \o bytes

\* NetworkId::encode() of a field-less variant: its discriminant
EncodeNetworkId(network) == <<network>>

\* the byte-string literals
bChildChain == <<67, 104, 105, 108, 100, 67, 104, 97, 105, 110>>
bSiblingChain == <<83, 105, 98, 108, 105, 110, 103, 67, 104, 97, 105, 110>>
bParentChain == <<80, 97, 114, 101, 110, 116, 67, 104, 97, 105, 110>>
bUniversalLocation ==
    <<85, 110, 105, 118, 101, 114, 115, 97, 108, 76, 111, 99, 97, 116, 105, 111, 110>>
bParachain == <<80, 97, 114, 97, 99, 104, 97, 105, 110>>
bPallet == <<80, 97, 108, 108, 101, 116>>
bBody == <<66, 111, 100, 121>>

(* ---------------- the location encoder ---------------- *)
\* Junctions::first as a test of the junction's kind
FirstIs(js, kind) == Len(js) > 0 /\ js[1][1] = kind

\* DescribeAllTerminal on the locations explored: Here, X1(PalletInstance),
\* X1(Plurality { Index(i), Voice })
DescribeAllTerminal(l) ==
    IF l.parents # 0 THEN None
    ELSE IF Len(l.interior) = 0 THEN Some(<<>>)
    ELSE IF Len(l.interior) = 1 /\ FirstIs(l.interior, "PalletInstance")
         THEN Some(bPallet \o CompactU32(l.interior[1][2]))
    ELSE IF Len(l.interior) = 1 /\ FirstIs(l.interior, "Plurality")
         THEN Some(bBody \o (<<2>> \o CompactU32(l.interior[1][2])) \o <<0>>)
    ELSE None

\* DescribeTerminus
DescribeTerminus(l) ==
    IF l.parents = 0 /\ Len(l.interior) = 0 THEN Some(<<>>) ELSE None

\* the suffix encoders explored
SuffixSet == { "DescribeAllTerminal", "DescribeTerminus",
               "NewDescribeFamily<DescribeAllTerminal>" }

\* what one call of describe_location gives: the result and the calls it
\* made to Suffix::describe_location
Described(out, calls) == [out |-> out, suffix_calls |-> calls]

RECURSIVE describe_location(_, _)

\* Suffix::describe_location
SuffixDescribe(Suffix, l) ==
    IF Suffix = "DescribeAllTerminal" THEN DescribeAllTerminal(l)
    ELSE IF Suffix = "DescribeTerminus" THEN DescribeTerminus(l)
    ELSE describe_location(l, "DescribeAllTerminal").out

\* mutant: a failing suffix encoder is taken for an empty remainder
WithSuffixOrDefault(Suffix, head, tail) ==
    LET interior == SuffixDescribe(Suffix, MultiLocation(0, tail))
    IN  Described(Some(head \o EncodeVec(interior.bytes)),
                  <<MultiLocation(0, tail)>>)

\* the arms' common tail: let interior = Suffix::describe_location(&tail)?;
\* Some((head.., interior).encode())
WithSuffix(Suffix, head, tail) ==
    LET interior == SuffixDescribe(Suffix, MultiLocation(0, tail))
    IN  IF ~interior.some
        THEN Described(None, <<MultiLocation(0, tail)>>)
        ELSE Described(Some(head \o EncodeVec(interior.bytes)),
                       <<MultiLocation(0, tail)>>)

\* mutant: the network follows the sub-tag and the index
universal_armReordered(l, Suffix) ==
    LET tail == Tail(l.interior)
    IN  IF FirstIs(tail, "Parachain")
        THEN WithSuffix(Suffix,
                 bUniversalLocation \o bParachain \o CompactU32(tail[1][2])
                     \o EncodeNetworkId(l.interior[1][2]),
                 Tail(tail))
        ELSE Described(None, <<>>)

\* mutant: a global consensus without a parachain gets an encoding of its own
universal_armDefault(l, Suffix) ==
    LET tail == Tail(l.interior)
    IN  IF FirstIs(tail, "Parachain")
        THEN WithSuffix(Suffix,
                 bUniversalLocation \o EncodeNetworkId(l.interior[1][2])
                     \o bParachain \o CompactU32(tail[1][2]),
                 Tail(tail))
        ELSE Described(Some(bUniversalLocation \o EncodeNetworkId(l.interior[1][2])),
                       <<>>)

\* the arm between the NEW CODE markers
universal_arm(l, Suffix) ==
    LET tail == Tail(l.interior)
    IN  IF FirstIs(tail, "Parachain")
        THEN WithSuffix(Suffix,
                 bUniversalLocation \o EncodeNetworkId(l.interior[1][2])
                     \o bParachain \o CompactU32(tail[1][2]),
                 Tail(tail))
        ELSE Described(None, <<>>)

\* mutant: the parent-chain arm comes before the sibling-chain arm
describe_locationParentFirst(l, Suffix) ==
    IF l.parents = 0 /\ FirstIs(l.interior, "Parachain")
    THEN WithSuffix(Suffix, bChildChain \o CompactU32(l.interior[1][2]),
                    Tail(l.interior))
    ELSE IF l.parents = 1
    THEN WithSuffix(Suffix, bParentChain, l.interior)
    ELSE IF l.parents = 0 /\ FirstIs(l.interior, "GlobalConsensus")
    THEN universal_arm(l, Suffix)
    ELSE Described(None, <<>>)

\* mutant: the new arm comes first and matches whatever parents is
describe_locationUniversalFirst(l, Suffix) ==
    IF FirstIs(l.interior, "GlobalConsensus")
    THEN universal_arm(l, Suffix)
    ELSE IF l.parents = 0 /\ FirstIs(l.interior, "Parachain")
    THEN WithSuffix(Suffix, bChildChain \o CompactU32(l.interior[1][2]),
                    Tail(l.interior))
    ELSE IF l.parents = 1 /\ FirstIs(l.interior, "Parachain")
    THEN WithSuffix(Suffix, bSiblingChain \o CompactU32(l.interior[1][2]),
                    Tail(l.interior))
    ELSE IF l.parents = 1
    THEN WithSuffix(Suffix, bParentChain, l.interior)
    ELSE Described(None, <<>>)

\* NewDescribeFamily::<Suffix>::describe_location
describe_location(l, Suffix) ==
    IF l.parents = 0 /\ FirstIs(l.interior, "Parachain")
    THEN WithSuffix(Suffix, bChildChain \o CompactU32(l.interior[1][2]),
                    Tail(l.interior))
    ELSE IF l.parents = 1 /\ FirstIs(l.interior, "Parachain")
    THEN WithSuffix(Suffix, bSiblingChain \o CompactU32(l.interior[1][2]),
                    Tail(l.interior))
    ELSE IF l.parents = 1
    THEN WithSuffix(Suffix, bParentChain, l.interior)
    ELSE IF l.parents = 0 /\ FirstIs(l.interior, "GlobalConsensus")
    THEN universal_arm(l, Suffix)
    ELSE Described(None, <<>>)

\* DescribeFamily::<Suffix>::describe_location, the encoder before the
\* extension: the same match without the arm between the NEW CODE markers
legacy_describe_location(l, Suffix) ==
    IF l.parents = 0 /\ FirstIs(l.interior, "Parachain")
    THEN WithSuffix(Suffix, bChildChain \o CompactU32(l.interior[1][2]),
                    Tail(l.interior))
    ELSE IF l.parents = 1 /\ FirstIs(l.interior, "Parachain")
    THEN WithSuffix(Suffix, bSiblingChain \o CompactU32(l.interior[1][2]),
                    Tail(l.interior))
    ELSE IF l.parents = 1
    THEN WithSuffix(Suffix, bParentChain, l.interior)
    ELSE Described(None, <<>>)

\* the locations given to the encoder
EncInteriorSet ==
    { <<>>,
      <<Parachain(5)>>,
      <<Parachain(2125)>>,
      <<Parachain(70000)>>,
      <<Parachain(1073741824)>>,
      <<Parachain(2125), Plurality(0)>>,
      <<Parachain(2125), PalletInstance(42)>>,
      <<Parachain(5), PalletInstance(1), PalletInstance(2)>>,
      <<Parachain(1000), Parachain(5), PalletInstance(42)>>,
      <<PalletInstance(42)>>,
      <<Plurality(0)>>,
      <<GlobalConsensus(Kusama)>>,
      <<GlobalConsensus(Kusama), Parachain(2125)>>,
      <<GlobalConsensus(Kusama), Parachain(2125), Plurality(0)>>,
      <<GlobalConsensus(Polkadot), Parachain(1000), PalletInstance(42)>>,
      <<GlobalConsensus(Kusama), Parachain(1000), Parachain(5)>>,
      <<GlobalConsensus(Kusama), Parachain(5), PalletInstance(1), PalletInstance(2)>>,
      <<GlobalConsensus(Kusama), PalletInstance(42)>>,
      <<GlobalConsensus(Kusama), GlobalConsensus(Polkadot)>> }

EncLocationSet ==
    { MultiLocation(p, i) : p \in 0 .. MaxEncParents, i \in EncInteriorSet }

(* ---------------- state ---------------- *)
VARIABLES
    LocalUniversal,   \* LocalUniversal::get()
    MaxPrefixes,      \* MaxPrefixes::get()
    origin,           \* the caller's origin
    instructions,     \* the caller's instruction slice
    max_weight,
    properties,
    actual_origin,    \* the working origin
    skipped,          \* the Cell counter
    current_idx,      \* the matcher's position (0-based)
    pc,               \* "scan", "inner" or "done"
    result,           \* "none" until should_execute returns
    inner_calls,      \* the calls made to InnerBarrier::should_execute
    enc,              \* the encoder's input and what the two encoders returned
    legacy,           \* the state of a WithComputedOrigin::should_execute call
    history,          \* the earlier should_execute calls on this instruction vector
    invs              \* the should_execute calls running side by side

params == <<LocalUniversal, MaxPrefixes>>
args == <<origin, instructions, max_weight, properties>>
vars == <<LocalUniversal, MaxPrefixes, origin, instructions, max_weight, properties,
          actual_origin, skipped, current_idx, pc, result, inner_calls, enc, legacy, history, invs>>

\* the state outside the resolver
others == <<enc, legacy, history, invs>>

\* no call of the legacy resolver is under way
LegacyIdle ==
    [actual_origin |-> MultiLocation(0, <<>>), skipped |-> 0, current_idx |-> 0,
     pc |-> "idle", result |-> "none", inner_calls |-> <<>>]

\* no encoder call is under way
EncIdle ==
    [l |-> MultiLocation(0, <<>>), Suffix |-> "DescribeTerminus",
     new_done |-> TRUE, new |-> Described(None, <<>>),
     legacy_done |-> TRUE, legacy |-> Described(None, <<>>)]

Init ==
    /\ enc = EncIdle
    /\ legacy = LegacyIdle
    /\ history = <<>>
    /\ invs = <<>>
    /\ LocalUniversal \in LocalUniversalSet
    /\ MaxPrefixes \in MaxPrefixSet
    /\ origin \in OriginSet
    /\ instructions \in SeqsUpTo(InstructionSet, MaxLen)
    /\ max_weight \in WeightSet
    /\ properties \in PropertiesSet
    /\ actual_origin = origin
    /\ skipped = 0
    /\ current_idx = 0
    /\ pc = "scan"
    /\ result = "none"
    /\ inner_calls = <<>>

(* ---------------- the prefix scan ---------------- *)
\* mutant: off-by-one loop condition
condInclusive == skipped <= MaxPrefixes

\* the loop condition |_| skipped.get() < MaxPrefixes::get()
cond == skipped < MaxPrefixes

\* the matcher's loop is about to apply the closure to instructions[current_idx]
AtInst ==
    /\ pc = "scan"
    /\ current_idx < Len(instructions)
    /\ cond

CurInst == instructions[current_idx + 1]

\* mutant: a failing arm only ends the scan
ConsumeOrBreak(r) ==
    IF r.ok
    THEN /\ actual_origin' = r.val
         /\ skipped' = skipped + 1
         /\ current_idx' = current_idx + 1
         /\ UNCHANGED <<pc, result>>
    ELSE /\ pc' = "inner"
         /\ UNCHANGED <<actual_origin, skipped, current_idx, result>>

\* the closure's outcome: Continue with a new working origin, or Unsupported
Consume(r) ==
    IF r.ok
    THEN /\ actual_origin' = r.val
         /\ skipped' = skipped + 1
         /\ current_idx' = current_idx + 1
         /\ UNCHANGED <<pc, result>>
    ELSE /\ result' = "Unsupported"
         /\ pc' = "done"
         /\ UNCHANGED <<actual_origin, skipped, current_idx>>

\* match_next_inst_while on an empty matcher
MatchEmpty ==
    /\ pc = "scan"
    /\ Len(instructions) = 0
    /\ result' = "BadFormat"
    /\ pc' = "done"
    /\ UNCHANGED <<others, params, args, actual_origin, skipped, current_idx, inner_calls>>

StepUniversalOrigin ==
    /\ AtInst
    /\ CurInst.tag = "UniversalOrigin"
    /\ Consume(universal_origin(actual_origin, CurInst.arg[1], LocalUniversal))
    /\ UNCHANGED <<others, params, args, inner_calls>>

StepDescendOrigin ==
    /\ AtInst
    /\ CurInst.tag = "DescendOrigin"
    /\ Consume(descend_origin(actual_origin, CurInst.arg))
    /\ UNCHANGED <<others, params, args, inner_calls>>

\* mutant: any other instruction is consumed and the scan goes on
StepOtherConsumes ==
    /\ AtInst
    /\ ~IsOriginAffecting(CurInst)
    /\ skipped' = skipped + 1
    /\ current_idx' = current_idx + 1
    /\ UNCHANGED <<others, params, args, actual_origin, pc, result, inner_calls>>

\* any other instruction: ControlFlow::Break
StepOther ==
    /\ AtInst
    /\ ~IsOriginAffecting(CurInst)
    /\ pc' = "inner"
    /\ UNCHANGED <<others, params, args, actual_origin, skipped, current_idx, result, inner_calls>>

\* the loop ends: no instruction left, or the condition skipped < MaxPrefixes fails
ScanEnd ==
    /\ pc = "scan"
    /\ Len(instructions) > 0
    /\ \/ current_idx >= Len(instructions)
       \/ ~cond
    /\ pc' = "inner"
    /\ UNCHANGED <<others, params, args, actual_origin, skipped, current_idx, result, inner_calls>>

\* one call of InnerBarrier::should_execute and what it returned
InnerCall(o, insts, w, p, r) ==
    [origin |-> o, instructions |-> insts, max_weight |-> w, properties |-> p,
     returned |-> r]

\* mutant: the inner check is given the caller's origin and the whole slice
InvokeInnerUnresolved ==
    /\ pc = "inner"
    /\ \E r \in InnerResults :
          /\ inner_calls' = Append(inner_calls,
                 InnerCall(origin, instructions, max_weight, properties, r))
          /\ result' = r
    /\ pc' = "done"
    /\ UNCHANGED <<others, params, args, actual_origin, skipped, current_idx>>

\* mutant: the inner check's error is swallowed
InvokeInnerSwallow ==
    /\ pc = "inner"
    /\ \E r \in InnerResults :
          /\ inner_calls' = Append(inner_calls,
                 InnerCall(actual_origin,
                           SubSeq(instructions, skipped + 1, Len(instructions)),
                           max_weight, properties, r))
          /\ result' = "Ok"
    /\ pc' = "done"
    /\ UNCHANGED <<others, params, args, actual_origin, skipped, current_idx>>

\* mutant: the consumed prefix is drained from the instructions and the
\* resolved origin written back
InvokeInnerDrain ==
    /\ pc = "inner"
    /\ \E r \in InnerResults :
          /\ inner_calls' = Append(inner_calls,
                 InnerCall(actual_origin,
                           SubSeq(instructions, skipped + 1, Len(instructions)),
                           max_weight, properties, r))
          /\ result' = r
    /\ pc' = "done"
    /\ instructions' = SubSeq(instructions, skipped + 1, Len(instructions))
    /\ origin' = actual_origin
    /\ UNCHANGED <<others, params, max_weight, properties, actual_origin, skipped,
                   current_idx>>

\* InnerBarrier::should_execute(&actual_origin, &mut instructions[skipped..], ..)
\* and the return of its result
InvokeInner ==
    /\ pc = "inner"
    /\ \E r \in InnerResults :
          /\ inner_calls' = Append(inner_calls,
                 InnerCall(actual_origin,
                           SubSeq(instructions, skipped + 1, Len(instructions)),
                           max_weight, properties, r))
          /\ result' = r
    /\ pc' = "done"
    /\ UNCHANGED <<others, params, args, actual_origin, skipped, current_idx>>

Next ==
    \/ MatchEmpty
    \/ StepUniversalOrigin
    \/ StepDescendOrigin
    \/ StepOther
    \/ ScanEnd
    \/ InvokeInner

Spec == Init /\ [][Next]_vars

(* ---------------- the encoder's calls ---------------- *)
resolver_vars ==
    <<LocalUniversal, MaxPrefixes, origin, instructions, max_weight, properties,
      actual_origin, skipped, current_idx, pc, result, inner_calls>>

\* no resolver call is under way
ResolverIdle ==
    /\ LocalUniversal = RelayUniversalLocation
    /\ MaxPrefixes = DemoMaxPrefixes
    /\ origin = MultiLocation(0, <<>>)
    /\ instructions = <<>>
    /\ max_weight = 0
    /\ properties \in PropertiesSet
    /\ actual_origin = origin
    /\ skipped = 0
    /\ current_idx = 0
    /\ pc = "done"
    /\ result = "none"
    /\ inner_calls = <<>>

InitEnc ==
    /\ ResolverIdle
    /\ legacy = LegacyIdle
    /\ history = <<>>
    /\ invs = <<>>
    /\ \E l \in EncLocationSet, Suffix \in SuffixSet :
          enc = [l |-> l, Suffix |-> Suffix,
                 new_done |-> FALSE, new |-> Described(None, <<>>),
                 legacy_done |-> FALSE, legacy |-> Described(None, <<>>)]

\* NewDescribeFamily::<Suffix>::describe_location(&l)
CallNewDescribeFamily ==
    /\ ~enc.new_done
    /\ enc' = [enc EXCEPT !.new_done = TRUE,
                          !.new = describe_location(enc.l, enc.Suffix)]
    /\ UNCHANGED <<resolver_vars, legacy, history, invs>>

\* DescribeFamily::<Suffix>::describe_location(&l)
CallDescribeFamily ==
    /\ ~enc.legacy_done
    /\ enc' = [enc EXCEPT !.legacy_done = TRUE,
                          !.legacy = legacy_describe_location(enc.l, enc.Suffix)]
    /\ UNCHANGED <<resolver_vars, legacy, history, invs>>

NextEnc ==
    \/ CallNewDescribeFamily
    \/ CallDescribeFamily

SpecEnc == InitEnc /\ [][NextEnc]_vars

(* ---------------- successive calls on one instruction vector ---------------- *)
\* the barriers and origins main calls with instructions_with_universal
DemoLocalUniversalSet == { RelayUniversalLocation, ParaUniversalLocation }
DemoOriginSet ==
    { MultiLocation(0, <<Parachain(2125)>>), MultiLocation(1, <<Parachain(2125)>>) }

InitSeq ==
    /\ enc = EncIdle
    /\ legacy = LegacyIdle
    /\ history = <<>>
    /\ invs = <<>>
    /\ LocalUniversal \in DemoLocalUniversalSet
    /\ MaxPrefixes \in MaxPrefixSet
    /\ origin \in DemoOriginSet
    /\ instructions \in SeqsUpTo(InstructionSet, MaxLen)
    /\ max_weight = 100
    /\ properties \in PropertiesSet
    /\ actual_origin = origin
    /\ skipped = 0
    /\ current_idx = 0
    /\ pc = "scan"
    /\ result = "none"
    /\ inner_calls = <<>>

\* main calls another barrier with the same instruction vector, as it is
\* after the call before, and an origin of its own
CallAgain ==
    /\ pc = "done"
    /\ Len(history) + 1 < MaxCalls
    /\ history' = Append(history,
           [instructions |-> instructions,
            skipped |-> skipped,
            inner_called |-> inner_calls # <<>>])
    /\ LocalUniversal' \in DemoLocalUniversalSet
    /\ origin' \in DemoOriginSet
    /\ actual_origin' = origin'
    /\ skipped' = 0
    /\ current_idx' = 0
    /\ pc' = "scan"
    /\ result' = "none"
    /\ inner_calls' = <<>>
    /\ UNCHANGED <<MaxPrefixes, instructions, max_weight, properties, enc, legacy, invs>>

NextSeq ==
    \/ Next
    \/ CallAgain

SpecSeq == InitSeq /\ [][NextSeq]_vars

(* ---------------- calls for independent messages, side by side ---------------- *)
\* should_execute is an associated function without self: all it works on
\* are its arguments and its locals actual_origin and skipped, one set per call
Invocations == 1 .. 2

ConcInstructionSet ==
    { UniversalOrigin(GlobalConsensus(Kusama)),
      DescendOrigin(<<Plurality(0)>>),
      Transact }

ConcMaxPrefixSet == { 1, DemoMaxPrefixes }

\* a call at its entry
Invocation(local, max, o, insts) ==
    [LocalUniversal |-> local, MaxPrefixes |-> max, origin |-> o,
     instructions |-> insts,
     actual_origin |-> o, skipped |-> 0, current_idx |-> 0,
     pc |-> "scan", result |-> "none", inner_calls |-> <<>>]

\* the relay's barrier and the parachain's barrier, each with a message of its own
InitConc ==
    /\ enc = EncIdle
    /\ legacy = LegacyIdle
    /\ history = <<>>
    /\ ResolverIdle
    /\ \E max \in ConcMaxPrefixSet :
       \E i1 \in SeqsUpTo(ConcInstructionSet, MaxLen) :
       \E i2 \in SeqsUpTo(ConcInstructionSet, MaxLen) :
          invs = << Invocation(RelayUniversalLocation, max,
                               MultiLocation(0, <<Parachain(2125)>>), i1),
                    Invocation(ParaUniversalLocation, max,
                               MultiLocation(1, <<Parachain(2125)>>), i2) >>

\* mutant: skipped is one cell shared by all calls
ConcCondShared(i) ==
    invs[1].skipped + invs[2].skipped < invs[i].MaxPrefixes

\* the loop condition of call i
ConcCond(i) == invs[i].skipped < invs[i].MaxPrefixes

ConcAtInst(i) ==
    /\ invs[i].pc = "scan"
    /\ invs[i].current_idx < Len(invs[i].instructions)
    /\ ConcCond(i)

ConcCurInst(i) == invs[i].instructions[invs[i].current_idx + 1]

ConcConsume(i, r) ==
    IF r.ok
    THEN invs' = [invs EXCEPT ![i].actual_origin = r.val,
                              ![i].skipped = @ + 1,
                              ![i].current_idx = @ + 1]
    ELSE invs' = [invs EXCEPT ![i].result = "Unsupported", ![i].pc = "done"]

ConcMatchEmpty(i) ==
    /\ invs[i].pc = "scan"
    /\ Len(invs[i].instructions) = 0
    /\ invs' = [invs EXCEPT ![i].result = "BadFormat", ![i].pc = "done"]
    /\ UNCHANGED <<resolver_vars, enc, legacy, history>>

ConcStepUniversalOrigin(i) ==
    /\ ConcAtInst(i)
    /\ ConcCurInst(i).tag = "UniversalOrigin"
    /\ ConcConsume(i, universal_origin(invs[i].actual_origin, ConcCurInst(i).arg[1],
                                       invs[i].LocalUniversal))
    /\ UNCHANGED <<resolver_vars, enc, legacy, history>>

ConcStepDescendOrigin(i) ==
    /\ ConcAtInst(i)
    /\ ConcCurInst(i).tag = "DescendOrigin"
    /\ ConcConsume(i, descend_origin(invs[i].actual_origin, ConcCurInst(i).arg))
    /\ UNCHANGED <<resolver_vars, enc, legacy, history>>

ConcStepOther(i) ==
    /\ ConcAtInst(i)
    /\ ~IsOriginAffecting(ConcCurInst(i))
    /\ invs' = [invs EXCEPT ![i].pc = "inner"]
    /\ UNCHANGED <<resolver_vars, enc, legacy, history>>

ConcScanEnd(i) ==
    /\ invs[i].pc = "scan"
    /\ Len(invs[i].instructions) > 0
    /\ \/ invs[i].current_idx >= Len(invs[i].instructions)
       \/ ~ConcCond(i)
    /\ invs' = [invs EXCEPT ![i].pc = "inner"]
    /\ UNCHANGED <<resolver_vars, enc, legacy, history>>

ConcInvokeInner(i) ==
    /\ invs[i].pc = "inner"
    /\ \E r \in InnerResults :
          invs' = [invs EXCEPT
              ![i].inner_calls = Append(@,
                  InnerCall(invs[i].actual_origin,
                            SubSeq(invs[i].instructions, invs[i].skipped + 1,
                                   Len(invs[i].instructions)),
                            max_weight, properties, r)),
              ![i].result = r,
              ![i].pc = "done"]
    /\ UNCHANGED <<resolver_vars, enc, legacy, history>>

NextConc ==
    \/ \E i \in Invocations : ConcMatchEmpty(i)
    \/ \E i \in Invocations : ConcStepUniversalOrigin(i)
    \/ \E i \in Invocations : ConcStepDescendOrigin(i)
    \/ \E i \in Invocations : ConcStepOther(i)
    \/ \E i \in Invocations : ConcScanEnd(i)
    \/ \E i \in Invocations : ConcInvokeInner(i)

SpecConc == InitConc /\ [][NextConc]_vars

(* ---------------- the legacy resolver, WithComputedOrigin ---------------- *)
\* the instructions given to both resolvers
LegacyInstructionSet ==
    { UniversalOrigin(GlobalConsensus(Kusama)),
      UniversalOrigin(GlobalConsensus(Polkadot)),
      DescendOrigin(<<Plurality(0)>>),
      DescendOrigin(<<PalletInstance(1), PalletInstance(2),
                      PalletInstance(3), PalletInstance(4)>>),
      Transact }

\* both resolvers are given the same parameters and arguments
InitLegacy ==
    /\ enc = EncIdle
    /\ history = <<>>
    /\ invs = <<>>
    /\ LocalUniversal \in LocalUniversalSet
    /\ MaxPrefixes \in MaxPrefixSet
    /\ origin \in OriginSet
    /\ instructions \in SeqsUpTo(LegacyInstructionSet, MaxLen)
    /\ max_weight = 100
    /\ properties \in PropertiesSet
    /\ actual_origin = origin
    /\ skipped = 0
    /\ current_idx = 0
    /\ pc = "scan"
    /\ result = "none"
    /\ inner_calls = <<>>
    /\ legacy = [actual_origin |-> origin, skipped |-> 0, current_idx |-> 0,
                 pc |-> "scan", result |-> "none", inner_calls |-> <<>>]

\* main calls one barrier after the other: the legacy call runs once the
\* other call has returned
LegacyAtInst ==
    /\ pc = "done"
    /\ legacy.pc = "scan"
    /\ legacy.current_idx < Len(instructions)
    /\ legacy.skipped < MaxPrefixes

LegacyCurInst == instructions[legacy.current_idx + 1]

LegacyConsume(r) ==
    IF r.ok
    THEN legacy' = [legacy EXCEPT !.actual_origin = r.val,
                                  !.skipped = @ + 1,
                                  !.current_idx = @ + 1]
    ELSE legacy' = [legacy EXCEPT !.result = "Unsupported", !.pc = "done"]

LegacyMatchEmpty ==
    /\ pc = "done"
    /\ legacy.pc = "scan"
    /\ Len(instructions) = 0
    /\ legacy' = [legacy EXCEPT !.result = "BadFormat", !.pc = "done"]
    /\ UNCHANGED <<resolver_vars, enc, history, invs>>

LegacyStepUniversalOrigin ==
    /\ LegacyAtInst
    /\ LegacyCurInst.tag = "UniversalOrigin"
    /\ LegacyConsume(legacy_universal_origin(LegacyCurInst.arg[1], LocalUniversal))
    /\ UNCHANGED <<resolver_vars, enc, history, invs>>

LegacyStepDescendOrigin ==
    /\ LegacyAtInst
    /\ LegacyCurInst.tag = "DescendOrigin"
    /\ LegacyConsume(append_with(legacy.actual_origin, LegacyCurInst.arg))
    /\ UNCHANGED <<resolver_vars, enc, history, invs>>

LegacyStepOther ==
    /\ LegacyAtInst
    /\ ~IsOriginAffecting(LegacyCurInst)
    /\ legacy' = [legacy EXCEPT !.pc = "inner"]
    /\ UNCHANGED <<resolver_vars, enc, history, invs>>

LegacyScanEnd ==
    /\ pc = "done"
    /\ legacy.pc = "scan"
    /\ Len(instructions) > 0
    /\ \/ legacy.current_idx >= Len(instructions)
       \/ ~(legacy.skipped < MaxPrefixes)
    /\ legacy' = [legacy EXCEPT !.pc = "inner"]
    /\ UNCHANGED <<resolver_vars, enc, history, invs>>

LegacyInvokeInner ==
    /\ legacy.pc = "inner"
    /\ \E r \in InnerResults :
          legacy' = [legacy EXCEPT
              !.inner_calls = Append(@,
                  InnerCall(legacy.actual_origin,
                            SubSeq(instructions, legacy.skipped + 1, Len(instructions)),
                            max_weight, properties, r)),
              !.result = r,
              !.pc = "done"]
    /\ UNCHANGED <<resolver_vars, enc, history, invs>>

NextLegacy ==
    \/ Next
    \/ LegacyMatchEmpty
    \/ LegacyStepUniversalOrigin
    \/ LegacyStepDescendOrigin
    \/ LegacyStepOther
    \/ LegacyScanEnd
    \/ LegacyInvokeInner

SpecLegacy == InitLegacy /\ [][NextLegacy]_vars

TypeOK ==
    /\ pc \in { "scan", "inner", "done" }
    /\ skipped \in 0 .. Len(instructions)
    /\ current_idx \in 0 .. Len(instructions)
    /\ result \in { "none", "BadFormat" } \cup InnerResults

(* ======================================================================= *)
(* The resolver's result stated as a fold over the instruction sequence    *)
(* ======================================================================= *)
\* number of leading UniversalOrigin / DescendOrigin instructions
RECURSIVE LeadingRun(_)
LeadingRun(insts) ==
    IF Len(insts) > 0 /\ IsOriginAffecting(insts[1])
    THEN 1 + LeadingRun(Tail(insts))
    ELSE 0

\* one origin-affecting instruction applied to a working origin
ApplyInst(o, inst) ==
    IF inst.tag = "UniversalOrigin"
    THEN universal_origin(o, inst.arg[1], LocalUniversal)
    ELSE descend_origin(o, inst.arg)

\* the first n instructions applied in order to the caller's origin
RECURSIVE ApplyPrefix(_)
ApplyPrefix(n) ==
    IF n = 0 THEN Ok(origin)
    ELSE LET before == ApplyPrefix(n - 1)
         IN  IF before.ok THEN ApplyInst(before.val, instructions[n]) ELSE Err

\* the prefix the scan is to consume, and its effect on the origin
ScanLen == Min(MaxPrefixes, LeadingRun(instructions))
Resolved == ApplyPrefix(ScanLen)
ScanSucceeds == Len(instructions) > 0 /\ Resolved.ok
PrefixFails == Len(instructions) > 0 /\ ~Resolved.ok

Returned == pc = "done"

(* ======================================================================= *)
(* C1                                                                      *)
(* ======================================================================= *)
\* C1: the number of instructions consumed never exceeds max_prefix: in every
\* state of the scan skipped <= max_prefix, and the tail handed to the inner
\* check starts at an index <= max_prefix.
C1_ConsumedAtMostMaxPrefix ==
    /\ skipped <= MaxPrefixes
    /\ current_idx <= MaxPrefixes
    /\ \A i \in 1 .. Len(inner_calls) :
          Len(instructions) - Len(inner_calls[i].instructions) <= MaxPrefixes

\* the scan stopped at max_prefix although an origin-affecting instruction follows
C1_Witness ==
    /\ Returned
    /\ Len(inner_calls) = 1
    /\ MaxPrefixes > 0
    /\ skipped = MaxPrefixes
    /\ skipped < Len(instructions)
    /\ IsOriginAffecting(instructions[skipped + 1])

(* ======================================================================= *)
(* C2                                                                      *)
(* ======================================================================= *)
\* position (1-based) of the first instruction that is not origin-affecting
FirstOther == LeadingRun(instructions) + 1
HasOther == FirstOther <= Len(instructions)

\* C2: the scan stops at the first instruction that is neither UniversalOrigin
\* nor DescendOrigin: it is never consumed, no later instruction is looked at,
\* and when the scan gets to it below max_prefix the resolver goes on to the
\* inner check, whose tail starts with that instruction and whose origin is
\* the one the instructions before it produce.
C2_StopsAtFirstOther ==
    HasOther =>
        /\ skipped < FirstOther
        /\ current_idx < FirstOther
        /\ (Returned /\ current_idx = FirstOther - 1 /\ skipped < MaxPrefixes) =>
              /\ Len(inner_calls) = 1
              /\ skipped = FirstOther - 1
              /\ inner_calls[1].instructions[1] = instructions[FirstOther]
              /\ Len(inner_calls[1].instructions) = Len(instructions) - FirstOther + 1
              /\ inner_calls[1].origin = ApplyPrefix(FirstOther - 1).val
              /\ result = inner_calls[1].returned

\* the scan stopped at an other instruction with prefix budget left and an
\* origin-affecting instruction after it
C2_Witness ==
    /\ Returned
    /\ HasOther
    /\ FirstOther < Len(instructions)
    /\ IsOriginAffecting(instructions[FirstOther + 1])
    /\ skipped = FirstOther - 1
    /\ skipped >= 1
    /\ skipped + 1 < MaxPrefixes
    /\ Len(inner_calls) = 1

(* ======================================================================= *)
(* C3                                                                      *)
(* ======================================================================= *)
\* C3: when the prefix scan finishes without failure the inner check is
\* invoked exactly once, with the origin obtained by applying the consumed
\* prefix in order to the caller's origin, with instructions[skipped..], and
\* with the max_weight and properties the resolver was given.
C3_InnerCalledOnceWithResolvedArgs ==
    /\ Len(inner_calls) <= 1
    /\ (Returned /\ ScanSucceeds) =>
          /\ Len(inner_calls) = 1
          /\ skipped = ScanLen
          /\ inner_calls[1].origin = Resolved.val
          /\ inner_calls[1].instructions =
                 SubSeq(instructions, skipped + 1, Len(instructions))
          /\ inner_calls[1].max_weight = max_weight
          /\ inner_calls[1].properties = properties

\* an inner call after a prefix of two instructions that changed the origin
C3_Witness ==
    /\ Returned
    /\ ScanSucceeds
    /\ skipped = 2
    /\ Len(inner_calls) = 1
    /\ inner_calls[1].origin # origin
    /\ Len(inner_calls[1].instructions) = 1
    /\ max_weight = 100

(* ======================================================================= *)
(* C4                                                                      *)
(* ======================================================================= *)
\* C4: when the prefix scan succeeds the resolver's result is the inner
\* check's result, Ok for Ok and the same error for an error.
C4_ResultIsInnerResult ==
    (Returned /\ ScanSucceeds) =>
        /\ Len(inner_calls) = 1
        /\ result = inner_calls[1].returned

\* the inner check's error came back from the resolver
C4_Witness ==
    /\ Returned
    /\ ScanSucceeds
    /\ Len(inner_calls) = 1
    /\ inner_calls[1].returned = "Barrier"
    /\ result = "Barrier"
    /\ skipped >= 1

(* ======================================================================= *)
(* C5, C6                                                                  *)
(* ======================================================================= *)
\* the message of the demo: UniversalOrigin(GlobalConsensus(Kusama)),
\* DescendOrigin(X1(Plurality { Index(0), Voice })), Transact
instructions_with_universal ==
    << UniversalOrigin(GlobalConsensus(Kusama)),
       DescendOrigin(<<Plurality(0)>>),
       Transact >>
origin_from_relay_perspective == MultiLocation(0, <<Parachain(2125)>>)
origin_from_para_perspective == MultiLocation(1, <<Parachain(2125)>>)
AbsolutePluralityOrigin ==
    MultiLocation(0, <<GlobalConsensus(Kusama), Parachain(2125), Plurality(0)>>)

C5_Case ==
    /\ LocalUniversal = RelayUniversalLocation
    /\ origin = origin_from_relay_perspective
    /\ instructions = instructions_with_universal
    /\ MaxPrefixes >= 2

\* C5: same-root rebasing: from the relay's perspective the resolver consumes
\* exactly 2 instructions and hands the inner check the origin
\* (0, [GlobalConsensus(K), Parachain(2125), Plurality{Index(0),Voice}]).
C5_SameRootRebasing ==
    (C5_Case /\ Returned) =>
        /\ skipped = 2
        /\ Len(inner_calls) = 1
        /\ inner_calls[1].origin = AbsolutePluralityOrigin
        /\ inner_calls[1].instructions = <<Transact>>

C5_Witness ==
    /\ C5_Case
    /\ MaxPrefixes = DemoMaxPrefixes
    /\ Returned
    /\ result = "Ok"
    /\ inner_calls[1].origin = AbsolutePluralityOrigin

C6_Case ==
    /\ LocalUniversal = ParaUniversalLocation
    /\ origin = origin_from_para_perspective
    /\ instructions = instructions_with_universal
    /\ MaxPrefixes >= 2

\* C6: nested-root rebasing: from the perspective of parachain 1000 the
\* resolver ascends past the local parachain and hands the inner check the
\* same absolute origin as in the relay's case.
C6_NestedRootRebasing ==
    (C6_Case /\ Returned) =>
        /\ skipped = 2
        /\ Len(inner_calls) = 1
        /\ inner_calls[1].origin = AbsolutePluralityOrigin
        /\ inner_calls[1].origin.parents = 0

C6_Witness ==
    /\ C6_Case
    /\ MaxPrefixes = DemoMaxPrefixes
    /\ Returned
    /\ result = "Ok"
    /\ inner_calls[1].origin.interior[2] = Parachain(2125)

(* ======================================================================= *)
(* C7                                                                      *)
(* ======================================================================= *)
\* the scan is at a DescendOrigin whose junctions do not fit
AtOverflowingDescend ==
    /\ AtInst
    /\ CurInst.tag = "DescendOrigin"
    /\ Len(actual_origin.interior) + Len(CurInst.arg) > MAX_JUNCTIONS

\* C7: a DescendOrigin in the scanned prefix that would make the working
\* origin's interior longer than the maximum arity makes the resolver return
\* Unsupported; nothing is truncated to fit and the caller's origin is unchanged.
C7_DescendOverflowUnsupported ==
    [][AtOverflowingDescend =>
          /\ pc' = "done"
          /\ result' = "Unsupported"
          /\ inner_calls' = <<>>
          /\ skipped' = skipped
          /\ actual_origin' = actual_origin
          /\ origin' = origin]_vars

\* the resolver returned Unsupported at a DescendOrigin that did not fit,
\* after a UniversalOrigin and a DescendOrigin that did
C7_Witness ==
    /\ Returned
    /\ result = "Unsupported"
    /\ inner_calls = <<>>
    /\ skipped = 2
    /\ current_idx < Len(instructions)
    /\ CurInst.tag = "DescendOrigin"
    /\ Len(actual_origin.interior) < MAX_JUNCTIONS
    /\ Len(actual_origin.interior) + Len(CurInst.arg) > MAX_JUNCTIONS

(* ======================================================================= *)
(* C8                                                                      *)
(* ======================================================================= *)
\* C8: a failure while applying a prefix instruction is fatal: the resolver
\* returns Unsupported and the inner check is never invoked, not even with
\* the origin the earlier prefix instructions produced.
C8_PrefixFailureIsFatal ==
    PrefixFails =>
        /\ inner_calls = <<>>
        /\ pc # "inner"
        /\ Returned => result = "Unsupported"

\* Unsupported after one prefix instruction had been consumed
C8_Witness ==
    /\ PrefixFails
    /\ Returned
    /\ result = "Unsupported"
    /\ skipped = 1
    /\ actual_origin # origin
    /\ inner_calls = <<>>

(* ======================================================================= *)
(* C9                                                                      *)
(* ======================================================================= *)
\* local_universal starts with a GlobalConsensus junction
HasLocalRoot ==
    /\ Len(LocalUniversal) > 0
    /\ LocalUniversal[1][1] = "GlobalConsensus"

\* new_global is the leading global-consensus junction of local_universal
IsLocalRoot(new_global) ==
    /\ HasLocalRoot
    /\ new_global = LocalUniversal[1]

\* the scan is at a UniversalOrigin
AtUniversalOrigin ==
    /\ AtInst
    /\ CurInst.tag = "UniversalOrigin"

FailsUnsupported ==
    /\ pc' = "done"
    /\ result' = "Unsupported"
    /\ inner_calls' = <<>>

\* C9: a UniversalOrigin(new_global) in the scanned prefix whose new_global
\* is not the leading global-consensus junction of local_universal makes the
\* resolver return Unsupported, whatever the working origin is.
C9_UnreachableGlobalUnsupported ==
    [][(AtUniversalOrigin /\ ~IsLocalRoot(CurInst.arg[1])) => FailsUnsupported]_vars

\* Unsupported at a UniversalOrigin naming another network than the local root
C9_Witness ==
    /\ Returned
    /\ result = "Unsupported"
    /\ inner_calls = <<>>
    /\ current_idx < Len(instructions)
    /\ cond
    /\ CurInst.tag = "UniversalOrigin"
    /\ HasLocalRoot
    /\ CurInst.arg[1][1] = "GlobalConsensus"
    /\ CurInst.arg[1] # LocalUniversal[1]

(* ======================================================================= *)
(* C10                                                                     *)
(* ======================================================================= *)
\* C10: if local_universal has no global-consensus root, every UniversalOrigin
\* the scan reaches makes the resolver return Unsupported.
C10_NoLocalRootUnsupported ==
    [][(AtUniversalOrigin /\ ~HasLocalRoot) => FailsUnsupported]_vars

\* Unsupported at a UniversalOrigin naming the first junction of a
\* local_universal that does not start with GlobalConsensus
C10_Witness ==
    /\ Returned
    /\ result = "Unsupported"
    /\ inner_calls = <<>>
    /\ current_idx < Len(instructions)
    /\ cond
    /\ CurInst.tag = "UniversalOrigin"
    /\ Len(LocalUniversal) > 0
    /\ ~HasLocalRoot
    /\ CurInst.arg[1] = LocalUniversal[1]

(* ======================================================================= *)
(* The encoder's cases                                                     *)
(* ======================================================================= *)
EncIndex(js) == js[1][2]
Shape1 == enc.l.parents = 0 /\ FirstIs(enc.l.interior, "Parachain")
Shape2 == enc.l.parents = 1 /\ FirstIs(enc.l.interior, "Parachain")
Shape3 == enc.l.parents = 1 /\ ~FirstIs(enc.l.interior, "Parachain")
Shape4 ==
    /\ enc.l.parents = 0
    /\ FirstIs(enc.l.interior, "GlobalConsensus")
    /\ FirstIs(Tail(enc.l.interior), "Parachain")

\* what the suffix encoder gives for a remainder
Remainder(js) == SuffixDescribe(enc.Suffix, MultiLocation(0, js))

\* the concatenation of the parts, the last one a Vec<u8>
Parts(head, remainder) == Some(head \o EncodeVec(remainder.bytes))

(* ======================================================================= *)
(* C11                                                                     *)
(* ======================================================================= *)
\* C11: shapes 1 to 3 in priority order: (0, Parachain(index) first) encodes
\* as ("ChildChain", compact index, suffix encoding of the rest);
\* (1, Parachain(index) first) as ("SiblingChain", compact index, suffix
\* encoding of the rest) and never as a parent chain; (1, anything else) as
\* ("ParentChain", suffix encoding of the full interior); the parts are
\* concatenated in this order.
C11_Shapes1To3 ==
    enc.new_done =>
        /\ (Shape1 /\ Remainder(Tail(enc.l.interior)).some) =>
              enc.new.out = Parts(bChildChain \o CompactU32(EncIndex(enc.l.interior)),
                                  Remainder(Tail(enc.l.interior)))
        /\ (Shape2 /\ Remainder(Tail(enc.l.interior)).some) =>
              enc.new.out = Parts(bSiblingChain \o CompactU32(EncIndex(enc.l.interior)),
                                  Remainder(Tail(enc.l.interior)))
        /\ (Shape3 /\ Remainder(enc.l.interior).some) =>
              enc.new.out = Parts(bParentChain, Remainder(enc.l.interior))

\* the sibling parachain 2125's pallet 42, under DescribeAllTerminal
C11_Witness ==
    /\ enc.new_done
    /\ enc.l = MultiLocation(1, <<Parachain(2125), PalletInstance(42)>>)
    /\ enc.Suffix = "DescribeAllTerminal"
    /\ enc.new.out =
          Some(bSiblingChain \o <<53, 33>> \o <<28>> \o bPallet \o <<168>>)

(* ======================================================================= *)
(* C12                                                                     *)
(* ======================================================================= *)
\* C12: shape 4: (0, [GlobalConsensus(network), Parachain(index), ..])
\* encodes as the concatenation, in this order, of ("UniversalLocation",
\* network, "Parachain", compact index, suffix encoding of the interior
\* without its first two junctions).
C12_Shape4 ==
    (enc.new_done /\ Shape4 /\ Remainder(Tail(Tail(enc.l.interior))).some) =>
        enc.new.out =
            Parts(bUniversalLocation \o EncodeNetworkId(enc.l.interior[1][2])
                      \o bParachain \o CompactU32(enc.l.interior[2][2]),
                  Remainder(Tail(Tail(enc.l.interior))))

\* the absolute location the resolver yields in the demo, under DescribeAllTerminal
C12_Witness ==
    /\ enc.new_done
    /\ enc.l = MultiLocation(0, <<GlobalConsensus(Kusama), Parachain(2125), Plurality(0)>>)
    /\ enc.Suffix = "DescribeAllTerminal"
    /\ enc.new.out =
          Some(bUniversalLocation \o <<3>> \o bParachain \o <<53, 33>>
                   \o <<28>> \o bBody \o <<2, 0, 0>>)

(* ======================================================================= *)
(* C13                                                                     *)
(* ======================================================================= *)
\* C13: the encoder returns None, never a default or partial encoding, for
\* every location matching none of shapes 1 to 4: parents >= 2; parents = 0
\* with an empty interior; parents = 0 with a first junction that is neither
\* Parachain nor GlobalConsensus; parents = 0 with GlobalConsensus first and
\* no Parachain second.
C13_NoShapeIsNone ==
    (enc.new_done /\ ~(Shape1 \/ Shape2 \/ Shape3 \/ Shape4)) =>
        /\ enc.new.out = None
        /\ enc.new.suffix_calls = <<>>

\* None for a global consensus followed by something else than a parachain
C13_Witness ==
    /\ enc.new_done
    /\ enc.l.parents = 0
    /\ FirstIs(enc.l.interior, "GlobalConsensus")
    /\ Len(enc.l.interior) = 2
    /\ ~FirstIs(Tail(enc.l.interior), "Parachain")
    /\ enc.new.out = None

(* ======================================================================= *)
(* C14                                                                     *)
(* ======================================================================= *)
\* C14: for every location matching shape 1, 2 or 3 and every suffix encoder
\* the extended encoder returns what the pre-extension encoder returns.
C14_BackwardCompatible ==
    (enc.new_done /\ enc.legacy_done /\ (Shape1 \/ Shape2 \/ Shape3)) =>
        enc.new.out = enc.legacy.out

\* both encoders gave a parent-chain encoding of an interior that starts
\* with GlobalConsensus and Parachain
C14_Witness ==
    /\ enc.new_done
    /\ enc.legacy_done
    /\ Shape3
    /\ FirstIs(enc.l.interior, "GlobalConsensus")
    /\ FirstIs(Tail(enc.l.interior), "Parachain")
    /\ enc.legacy.out.some
    /\ SubSeq(enc.new.out.bytes, 1, Len(bParentChain)) = bParentChain

(* ======================================================================= *)
(* C20                                                                     *)
(* ======================================================================= *)
\* the remainder left after stripping the layer of the shape matched
Stripped ==
    IF Shape1 \/ Shape2 THEN Tail(enc.l.interior)
    ELSE IF Shape3 THEN enc.l.interior
    ELSE Tail(Tail(enc.l.interior))

\* C20: for a location matching one of shapes 1 to 4 the encoder calls the
\* continuation encoder exactly on the stripped remainder, and fails when
\* the continuation encoder fails on it.
C20_SuffixCalledOnRemainder ==
    (enc.new_done /\ (Shape1 \/ Shape2 \/ Shape3 \/ Shape4)) =>
        /\ enc.new.suffix_calls = <<MultiLocation(0, Stripped)>>
        /\ ~Remainder(Stripped).some => enc.new.out = None
        /\ Remainder(Stripped).some => enc.new.out.some

\* None for a shape-4 location whose remainder DescribeAllTerminal rejects
C20_Witness ==
    /\ enc.new_done
    /\ Shape4
    /\ Len(Stripped) = 2
    /\ enc.Suffix = "DescribeAllTerminal"
    /\ ~Remainder(Stripped).some
    /\ enc.new.out = None
    /\ enc.new.suffix_calls = <<MultiLocation(0, Stripped)>>

(* ======================================================================= *)
(* C19                                                                     *)
(* ======================================================================= *)
\* a UniversalOrigin is among the instructions consumed so far
ConsumedUniversal ==
    \E k \in 1 .. skipped : instructions[k].tag = "UniversalOrigin"

IsAbsolute(l) ==
    /\ l.parents = 0
    /\ Len(l.interior) > 0
    /\ Len(LocalUniversal) > 0
    /\ LocalUniversal[1][1] = "GlobalConsensus"
    /\ l.interior[1] = LocalUniversal[1]

\* C19: after a scanned prefix in which a UniversalOrigin was consumed the
\* working origin is absolute: parents = 0 and the first junction is
\* GlobalConsensus(root of local_universal); later DescendOrigin
\* instructions keep this true, and so is the origin the inner check gets.
C19_AbsoluteAfterUniversalOrigin ==
    ConsumedUniversal =>
        /\ IsAbsolute(actual_origin)
        /\ \A i \in 1 .. Len(inner_calls) : IsAbsolute(inner_calls[i].origin)

\* a DescendOrigin was consumed after a UniversalOrigin, from a relative origin
C19_Witness ==
    /\ Returned
    /\ skipped = 2
    /\ instructions[1].tag = "UniversalOrigin"
    /\ instructions[2].tag = "DescendOrigin"
    /\ origin.parents = 1
    /\ Len(inner_calls) = 1
    /\ Len(actual_origin.interior) = 3

(* ======================================================================= *)
(* C18                                                                     *)
(* ======================================================================= *)
\* the instructions the new resolver's closure handled as origin-affecting:
\* those consumed, and the one it failed on
ScannedPrefix ==
    IF Returned /\ inner_calls = <<>> /\ Len(instructions) > 0
    THEN skipped + 1
    ELSE skipped

NoUniversalScanned ==
    \A k \in 1 .. ScannedPrefix : instructions[k].tag # "UniversalOrigin"

\* C18: when the scanned prefix holds no UniversalOrigin, the new resolver
\* consumes as many instructions, produces the same working origin and ends
\* the same way (inner call on the same origin and tail, or the same error)
\* as the legacy resolver with the same local_universal and max_prefix.
C18_SameAsLegacyWithoutUniversal ==
    (Returned /\ legacy.pc = "done" /\ NoUniversalScanned) =>
        /\ skipped = legacy.skipped
        /\ actual_origin = legacy.actual_origin
        /\ Len(inner_calls) = Len(legacy.inner_calls)
        /\ inner_calls = <<>> => result = legacy.result
        /\ inner_calls # <<>> =>
              /\ inner_calls[1].origin = legacy.inner_calls[1].origin
              /\ inner_calls[1].instructions = legacy.inner_calls[1].instructions

\* both resolvers consumed two DescendOrigin instructions and called the inner check
C18_Witness ==
    /\ Returned
    /\ legacy.pc = "done"
    /\ NoUniversalScanned
    /\ skipped = 2
    /\ legacy.skipped = 2
    /\ Len(actual_origin.interior) = 6
    /\ Len(legacy.inner_calls) = 1
    /\ Len(inner_calls) = 1

(* ======================================================================= *)
(* C17                                                                     *)
(* ======================================================================= *)
\* no step of a resolver call changes the instruction sequence or the
\* caller's origin
FrameStep ==
    /\ instructions' = instructions
    /\ pc # "done" => origin' = origin

\* at every later call the instructions are what they were after the calls
\* before, and a call that gets to the inner check has scanned the same
\* prefix as every earlier call that did
SamePrefixAgain ==
    \A i \in 1 .. Len(history) :
        /\ history[i].instructions = instructions
        /\ (Returned /\ inner_calls # <<>> /\ history[i].inner_called) =>
              skipped = history[i].skipped

\* C17: the resolver never changes the content, order or length of the
\* instruction sequence nor the caller's origin, whether the call fails or
\* not, so the same sequence can be resolved again with the same prefix
\* being scanned.
C17_InstructionsAndOriginUntouched ==
    [][FrameStep]_vars /\ []SamePrefixAgain

\* the vector is resolved a second time, after a call that consumed a prefix
\* of two, with the same two instructions consumed
C17_Witness ==
    /\ Len(history) = 1
    /\ history[1].skipped = 2
    /\ history[1].inner_called
    /\ Returned
    /\ skipped = 2
    /\ inner_calls # <<>>
    /\ Len(instructions) = 3

(* ======================================================================= *)
(* C16                                                                     *)
(* ======================================================================= *)
\* what a call gives when it runs alone, as a fold over its own arguments
RECURSIVE SoloPrefix(_, _, _, _)
SoloPrefix(o, insts, n, local) ==
    IF n = 0 THEN Ok(o)
    ELSE LET before == SoloPrefix(o, insts, n - 1, local)
         IN  IF ~before.ok THEN Err
             ELSE IF insts[n].tag = "UniversalOrigin"
                  THEN universal_origin(before.val, insts[n].arg[1], local)
                  ELSE descend_origin(before.val, insts[n].arg)

SoloLen(inv) == Min(inv.MaxPrefixes, LeadingRun(inv.instructions))
SoloResolved(inv) ==
    SoloPrefix(inv.origin, inv.instructions, SoloLen(inv), inv.LocalUniversal)

SameAsAlone(inv) ==
    IF Len(inv.instructions) = 0
        THEN inv.result = "BadFormat" /\ inv.inner_calls = <<>>
    ELSE IF ~SoloResolved(inv).ok
        THEN inv.result = "Unsupported" /\ inv.inner_calls = <<>>
    ELSE /\ inv.skipped = SoloLen(inv)
         /\ inv.actual_origin = SoloResolved(inv).val
         /\ Len(inv.inner_calls) = 1
         /\ inv.inner_calls[1].origin = SoloResolved(inv).val
         /\ inv.inner_calls[1].instructions =
                SubSeq(inv.instructions, SoloLen(inv) + 1, Len(inv.instructions))
         /\ inv.result = inv.inner_calls[1].returned

\* C16: the resolver keeps no state across invocations: in any interleaving
\* of calls for independent messages each call consumes the same number of
\* instructions, resolves the same origin and gives the same result as when
\* it runs alone.
C16_NoCrossCallState ==
    \A i \in 1 .. Len(invs) : invs[i].pc = "done" => SameAsAlone(invs[i])

\* the second call returned after consuming two instructions while the
\* first, which has consumed one, is still scanning
C16_Witness ==
    /\ Len(invs) = 2
    /\ invs[1].pc = "scan"
    /\ invs[1].skipped = 1
    /\ invs[2].pc = "done"
    /\ invs[2].skipped = 2
    /\ invs[2].result = "Ok"
    /\ invs[2].actual_origin # invs[1].actual_origin

====
